---- MODULE Spec2Model ----
(***************************************************************************)
(* Model of eden/estimator.py: the paired shuffle, the samplers            *)
(* (subsample, balance), the train/test split, the EdenEstimator           *)
(* fit/predict state and the parallel randomized model selection.          *)
(*                                                                         *)
(* Graphs are opaque objects, modelled by their identity (a number).       *)
(* Every draw from Python's random module is a nondeterministic choice.    *)
(* The iteration order of a dict's keys (Python 2) is a nondeterministic   *)
(* permutation of the keys.                                                *)
(***************************************************************************)
EXTENDS Integers, Sequences, FiniteSets

VARIABLES
    pc,              \* position of the modelled call: "call" | "returned" | "raised"
    graphs,          \* argument: the list of graphs
    targets,         \* argument: the list of labels
    estimator,       \* argument of balance: TRUE when a margin estimator is supplied
    margin,          \* decision_function value of the supplied estimator, per graph
    ratio,           \* argument of balance, a rational <<numerator, denominator>>
    subsample_size,  \* argument of subsample
    out_graphs,      \* returned list of graphs
    out_targets,     \* returned list of labels
    pos_graphs,      \* argument of make_train_test_sets
    neg_graphs,      \* argument of make_train_test_sets
    test_proportion, \* argument of make_train_test_sets, a rational
    train,           \* returned (tr_graphs, tr_targets)
    test,            \* returned (te_graphs, te_targets)
    est,             \* the EdenEstimator object (self): its fields
    fit_pc,          \* position inside fit
    randomize,       \* argument of fit
    samp,            \* fit: (samp_graphs, samp_targets)
    bal,             \* fit: (bal_graphs, bal_targets)
    log,             \* the calls the running or last fit has made, in order
    current_fit,     \* a fit call of self.model has completed since it was created
    last,            \* the last operation called on the estimator
    answer,          \* what the last predict or decision_function gave
    n_iter,          \* argument of model_selection_rand
    trial,           \* the trials handed to the pool: state, score, params
    best             \* the estimator model_selection_rand returns

samplerVars == <<graphs, targets, estimator, margin, ratio, subsample_size,
                 out_graphs, out_targets>>

splitVars == <<pos_graphs, neg_graphs, test_proportion, train, test>>

estVars == <<est, fit_pc, randomize, samp, bal, log, current_fit, last, answer>>

searchVars == <<n_iter, trial, best>>

vars == <<pc, samplerVars, splitVars, estVars, searchVars>>

----------------------------------------------------------------------------
\* Bounds of the model.

\* longest input list
MaxLen == 3

\* the class labels that occur in the inputs
Labels == {0, 1, 2}

\* decision_function values of a supplied estimator
MarginVals == {-2, 1}

\* values of ratio: 1/2, 1, 2 (the default), 3
Ratios == {<<1, 2>>, <<1, 1>>, <<2, 1>>, <<3, 1>>}

\* largest class handed to make_train_test_sets
MaxClass == 3

\* largest n_iter
MaxIter == 2

\* number of worker processes of the pool
PoolSize == 2

\* the mean cross-validation scores a trial can report (levels of a float)
Scores == {0, 1}

\* values of subsample_size of an estimator: 200 is the default
EstSubsampleSizes == {1, 2, 200}

\* values of test_proportion: 3/10 (the default), 1/2
TestProportions == {<<3, 10>>, <<1, 2>>}

----------------------------------------------------------------------------
\* Python helpers.

Min(a, b) == IF a < b THEN a ELSE b

Max(a, b) == IF a < b THEN b ELSE a

Abs(x) == IF x < 0 THEN 0 - x ELSE x

\* number of positions of seq that hold x
Count(seq, x) == Cardinality({i \in DOMAIN seq : seq[i] = x})

Range(seq) == {seq[i] : i \in DOMAIN seq}

\* the permutations of 1..n
Perms(n) == {p \in [1..n -> 1..n] : \A i, j \in 1..n : i # j => p[i] # p[j]}

PermTable == [n \in 0..MaxLen |-> Perms(n)]

\* s without its first item equal to x
RemoveFirst(s, x) ==
    LET k == CHOOSE i \in DOMAIN s : s[i] = x /\ \A j \in 1..(i - 1) : s[j] # x
    IN  SubSeq(s, 1, k - 1) \o SubSeq(s, k + 1, Len(s))

\* the lists that hold the items of s in some order
RECURSIVE Arrangements(_)
Arrangements(s) ==
    IF s = <<>> THEN {<<>>}
    ELSE UNION {{<<x>> \o a : a \in Arrangements(RemoveFirst(s, x))} : x \in Range(s)}

\* the sequences over S of length n
SeqsOfLen(S, n) == [1..n -> S]

\* a slice bound as Python normalises it for a list of length n
SliceIndex(i, n) == IF i < 0 THEN Max(n + i, 0) ELSE Min(i, n)

\* s[:e]
SliceTo(s, e) == SubSeq(s, 1, SliceIndex(e, Len(s)))

\* s[b:]
SliceFrom(s, b) == SubSeq(s, SliceIndex(b, Len(s)) + 1, Len(s))

\* zip(a, b): a list of pairs, as long as the shorter argument (Python 2)
Zip(a, b) == [i \in 1..Min(Len(a), Len(b)) |-> <<a[i], b[i]>>]

\* random.shuffle(s): the lists it may leave in s
Shuffle(s) == Arrangements(s)

\* toolz.sandbox.core.unzip: a tuple with one sequence per component of the
\* first item, and the empty tuple when seq has no first item
Unzip(seq) ==
    IF seq = <<>> THEN <<>>
    ELSE [k \in 1..Len(seq[1]) |-> [i \in 1..Len(seq) |-> seq[i][k]]]

Raised == [raised |-> TRUE, g |-> <<>>, t |-> <<>>]

Returned(g, t) == [raised |-> FALSE, g |-> g, t |-> t]

\* "i1, i2 = unzip(i1i2)": ValueError unless unzip gave two sequences
UnpackPair(u) == IF Len(u) # 2 THEN Raised ELSE Returned(u[1], u[2])

\* paired_shuffle(iterable1, iterable2): what it can return or raise
paired_shuffle(iterable1, iterable2) ==
    {UnpackPair(Unzip(i1i2)) : i1i2 \in Shuffle(Zip(iterable1, iterable2))}

\* groupby(first, tg)[y]: the items of class y, in the order met
GroupOf(tg, y) == SelectSeq(tg, LAMBDA x : x[1] = y)

\* the orders in which a dict keyed by the labels of t may iterate
KeyOrders(t) ==
    LET ks == Range(t)
        n  == Cardinality(ks)
    IN  {o \in SeqsOfLen(ks, n) : \A i, j \in 1..n : i # j => o[i] # o[j]}

----------------------------------------------------------------------------
\* subsample (lines 42-56).

\* values of subsample_size
SubsampleSizes == 0..(MaxLen + 1)

\* the loop "for y in class_graphs" from the i-th key on: the graphs and labels
\* it appends, each class cut to its first quota items
RECURSIVE SubsampleLoop(_, _, _, _)
SubsampleLoop(tg, keys, quota, i) ==
    IF i > Len(keys) THEN [g |-> <<>>, t |-> <<>>]
    ELSE LET y               == keys[i]
             class_subgraphs == SliceTo(GroupOf(tg, y), quota)
             rest            == SubsampleLoop(tg, keys, quota, i + 1)
         IN  [g |-> [k \in 1..Len(class_subgraphs) |-> class_subgraphs[k][2]] \o rest.g,
              t |-> [k \in 1..Len(class_subgraphs) |-> y] \o rest.t]

\* the per-class quota: subsample_size / num_classes, Python 2 integer division.
\* It is evaluated inside the loop only, so never with num_classes = 0.
SubsampleQuota(size, num_classes) ==
    IF num_classes = 0 THEN 0 ELSE size \div num_classes

\* subgraphs, subtargets before the final shuffle
SubsampleSelect(gs, ts, size, keys) ==
    LET tg          == Zip(ts, gs)
        num_classes == Cardinality(Range(ts))
    IN  SubsampleLoop(tg, keys, SubsampleQuota(size, num_classes), 1)

\* subsample(graphs, targets, subsample_size): what it can return or raise
subsample(gs, ts, size) ==
    UNION {LET sel == SubsampleSelect(gs, ts, size, keys)
           IN  paired_shuffle(sel.g, sel.t) :
           keys \in KeyOrders(ts)}

----------------------------------------------------------------------------
\* balance (lines 59-98).

\* majority_class and minority_class before the loop
NoClass == -1

\* min_count before the loop (1e6)
InitMinCount == 1000000

\* the loop "for class_key in class_counts" from the i-th key on
RECURSIVE BalanceScan(_, _, _, _)
BalanceScan(ts, keys, i, acc) ==
    IF i > Len(keys) THEN acc
    ELSE LET class_key == keys[i]
             n         == Count(ts, class_key)
             a1 == IF acc.max_count < n
                   THEN [acc EXCEPT !.majority_class = class_key, !.max_count = n]
                   ELSE acc
             a2 == IF a1.min_count > n
                   THEN [a1 EXCEPT !.minority_class = class_key, !.min_count = n]
                   ELSE a1
         IN  BalanceScan(ts, keys, i + 1, a2)

\* the classes and counts the loop ends with
BalanceClasses(ts, keys) ==
    BalanceScan(ts, keys, 1,
                [majority_class |-> NoClass, max_count |-> 0,
                 minority_class |-> NoClass, min_count |-> InitMinCount])

\* int(x) of the rational num/den: truncation towards zero
IntTrunc(num, den) ==
    IF num >= 0 THEN num \div den ELSE 0 - ((0 - num) \div den)

DesiredSizeNoRatio(min_count, rt) == min_count

\* desired_size = int(min_count * ratio)
DesiredSize(min_count, rt) == IntTrunc(min_count * rt[1], rt[2])

BalancePredsNoAbs(has_est, mg, maj_graphs, draw) ==
    [i \in 1..Len(maj_graphs) |-> IF has_est THEN mg[maj_graphs[i]] ELSE draw[i]]

\* preds: the absolute decision_function values of the majority graphs when an
\* estimator is supplied, random numbers otherwise (draw[i]: the rank of the
\* i-th random number among those drawn)
BalancePreds(has_est, mg, maj_graphs, draw) ==
    [i \in 1..Len(maj_graphs) |->
        Abs(IF has_est THEN mg[maj_graphs[i]] ELSE draw[i])]

\* sorted(zip(preds, items)): by pred, then by the items' own order, where
\* rank[i] is the place of items[i] in Python's ordering of the graph objects
SortedPairs(preds, items, rank) ==
    LET n == Len(items)
        Less(j, i) == \/ preds[j] < preds[i]
                      \/ preds[j] = preds[i] /\ rank[j] < rank[i]
        place(i) == 1 + Cardinality({j \in 1..n : Less(j, i)})
        at(k) == CHOOSE i \in 1..n : place(i) = k
    IN  [k \in 1..n |-> <<preds[at(k)], items[at(k)]>>]

\* the class a key names in class_graphs; a key that is not there is a KeyError
HasClass(ts, key) == key \in Range(ts)

\* bal_graphs, bal_targets before the final shuffle: the dict iterating in order
\* keys, draw as in BalancePreds and SortedPairs
BalanceSelect(gs, ts, has_est, mg, rt, keys, draw) ==
    LET c            == BalanceClasses(ts, keys)
        desired_size == DesiredSize(c.min_count, rt)
        tg           == Zip(ts, gs)
        maj          == GroupOf(tg, c.majority_class)
        min          == GroupOf(tg, c.minority_class)
        maj_graphs   == [i \in 1..Len(maj) |-> maj[i][2]]
        min_graphs   == [i \in 1..Len(min) |-> min[i][2]]
        preds        == BalancePreds(has_est, mg, maj_graphs, draw)
        pred_graphs  == SliceTo(SortedPairs(preds, maj_graphs, draw), desired_size)
        kept         == [i \in 1..Len(pred_graphs) |-> pred_graphs[i][2]]
    IN  [g |-> min_graphs \o kept,
         t |-> [i \in 1..Len(min_graphs) |-> c.minority_class] \o
               [i \in 1..Len(kept) |-> c.majority_class]]

\* number of graphs of the majority class
MajorityCount(ts, keys) == Count(ts, BalanceClasses(ts, keys).majority_class)

\* the lists balance can hand to the final shuffle, over the orders in which
\* the dict may iterate and the draws
BalanceSelections(gs, ts, has_est, mg, rt) ==
    UNION {{BalanceSelect(gs, ts, has_est, mg, rt, keys, draw) :
               draw \in PermTable[MajorityCount(ts, keys)]} :
           keys \in KeyOrders(ts)}

\* balance(graphs, targets, estimator, ratio): what it can return or raise.
\* With no class at all class_graphs[None] is a KeyError.
balance(gs, ts, has_est, mg, rt) ==
    IF \E keys \in KeyOrders(ts) :
           LET c == BalanceClasses(ts, keys)
           IN  ~HasClass(ts, c.majority_class) \/ ~HasClass(ts, c.minority_class)
    THEN {Raised}
    ELSE UNION {paired_shuffle(sel.g, sel.t) :
                sel \in BalanceSelections(gs, ts, has_est, mg, rt)}

----------------------------------------------------------------------------
\* The calls of the samplers.

GraphIds == 1..MaxLen

\* the list of n distinct graphs
Distinct(n) == [i \in 1..n |-> i]

NoMargin == [g \in GraphIds |-> 0]

Lengths == 0..MaxLen

NoPair == [g |-> <<>>, t |-> <<>>]

\* make_train_test_sets is not in use
SplitIdle ==
    /\ pos_graphs = <<>>
    /\ neg_graphs = <<>>
    /\ test_proportion = <<1, 2>>
    /\ train = NoPair
    /\ test = NoPair

\* the samplers are not in use
SamplerIdle ==
    /\ graphs = <<>>
    /\ targets = <<>>
    /\ estimator = FALSE
    /\ margin = NoMargin
    /\ ratio = <<1, 1>>
    /\ subsample_size = 0
    /\ out_graphs = <<>>
    /\ out_targets = <<>>

\* SGDClassifier(...): a new classifier, not trained
SGDClassifier == [fitted |-> FALSE]

set_params_keep_model(self, r, d, b, size, rt) ==
    [r |-> r, d |-> d, balance |-> b, subsample_size |-> size, ratio |-> rt,
     model |-> self.model]

\* self.set_params(r, d, n_jobs, discrete, balance, subsample_size, ratio): the
\* fields of self afterwards (n_jobs and discrete are only handed on to vectorize)
set_params(self, r, d, b, size, rt) ==
    [r |-> r, d |-> d, balance |-> b, subsample_size |-> size, ratio |-> rt,
     model |-> SGDClassifier]

\* the object before __init__ has run
NewObject ==
    [r |-> 0, d |-> 0, balance |-> FALSE, subsample_size |-> 0, ratio |-> <<0, 1>>,
     model |-> [fitted |-> FALSE]]

\* EdenEstimator(r, d, balance=b, subsample_size=size, ratio=rt)
EdenEstimator(r, d, b, size, rt) == set_params(NewObject, r, d, b, size, rt)

\* EdenEstimator(**params): the other arguments at their defaults
EdenEstimatorOf(params) == EdenEstimator(params.r, params.d, FALSE, 200, <<2, 1>>)

\* EdenEstimator(): every argument at its default
DefaultEstimator == EdenEstimator(1, 1, FALSE, 200, <<2, 1>>)

\* no estimator object
NoEstimator == [r |-> 0]

\* the estimator is not in use
EstIdle ==
    /\ est = DefaultEstimator
    /\ fit_pc = "idle"
    /\ randomize = TRUE
    /\ samp = NoPair
    /\ bal = NoPair
    /\ log = <<>>
    /\ current_fit = FALSE
    /\ last = "construct"
    /\ answer = "none"

\* model_selection_rand is not in use
SearchIdle ==
    /\ n_iter = 0
    /\ trial = <<>>
    /\ best = NoEstimator

TypeOK ==
    /\ pc \in {"call", "returned", "raised"}
    /\ Len(graphs) = Len(targets)

\* paired_shuffle is called on two equal-length lists
InitShuffle ==
    /\ pc = "call"
    /\ \E n \in Lengths : /\ graphs \in SeqsOfLen(GraphIds, n)
                          /\ targets \in SeqsOfLen(Labels, n)
    /\ estimator = FALSE
    /\ margin = NoMargin
    /\ ratio = <<1, 1>>
    /\ subsample_size = 0
    /\ out_graphs = <<>>
    /\ out_targets = <<>>
    /\ SplitIdle
    /\ EstIdle
    /\ SearchIdle

Finish(r) ==
    /\ pc' = IF r.raised THEN "raised" ELSE "returned"
    /\ out_graphs' = r.g
    /\ out_targets' = r.t
    /\ UNCHANGED <<graphs, targets, estimator, margin, ratio, subsample_size>>
    /\ UNCHANGED <<splitVars, estVars, searchVars>>

PairedShuffleCall ==
    /\ pc = "call"
    /\ \E r \in paired_shuffle(graphs, targets) : Finish(r)

NextShuffle == PairedShuffleCall

SpecShuffle == InitShuffle /\ [][NextShuffle]_vars

\* subsample is called on a list of distinct graphs and their labels
InitSubsample ==
    /\ pc = "call"
    /\ \E n \in Lengths : /\ graphs = Distinct(n)
                          /\ targets \in SeqsOfLen(Labels, n)
    /\ subsample_size \in SubsampleSizes
    /\ estimator = FALSE
    /\ margin = NoMargin
    /\ ratio = <<1, 1>>
    /\ out_graphs = <<>>
    /\ out_targets = <<>>
    /\ SplitIdle
    /\ EstIdle
    /\ SearchIdle

SubsampleCall ==
    /\ pc = "call"
    /\ \E r \in subsample(graphs, targets, subsample_size) : Finish(r)

NextSubsample == SubsampleCall

SpecSubsample == InitSubsample /\ [][NextSubsample]_vars

\* balance is called on a list of distinct graphs and their labels, with or
\* without a margin estimator: on no graph at all, or on graphs of at least two
\* classes (a single class is the degenerate dataset balance is not meant for)
InitBalance ==
    /\ pc = "call"
    /\ \E n \in Lengths : /\ graphs = Distinct(n)
                          /\ targets \in SeqsOfLen(Labels, n)
    /\ targets = <<>> \/ Cardinality(Range(targets)) >= 2
    /\ estimator \in BOOLEAN
    /\ margin \in [GraphIds -> MarginVals]
    /\ ~estimator => margin = [g \in GraphIds |-> 1]
    /\ \A g \in GraphIds : g > Len(graphs) => margin[g] = 1
    /\ ratio \in Ratios
    /\ subsample_size = 0
    /\ out_graphs = <<>>
    /\ out_targets = <<>>
    /\ SplitIdle
    /\ EstIdle
    /\ SearchIdle

BalanceCall ==
    /\ pc = "call"
    /\ \E r \in balance(graphs, targets, estimator, margin, ratio) : Finish(r)

NextBalance == BalanceCall

SpecBalance == InitBalance /\ [][NextBalance]_vars

----------------------------------------------------------------------------
\* make_train_test_sets (lines 101-119).

\* int(dim * test_proportion)
TestSize(dim, tp) == IntTrunc(dim * tp[1], tp[2])

\* class_graphs[:-int(dim * test_proportion)] of a shuffled class
TrainPart(class_graphs, tp) ==
    SliceTo(class_graphs, 0 - TestSize(Len(class_graphs), tp))

\* class_graphs[-int(dim * test_proportion):] of a shuffled class
TestPart(class_graphs, tp) ==
    SliceFrom(class_graphs, 0 - TestSize(Len(class_graphs), tp))

Ones(n) == [i \in 1..n |-> 1]

Zeros(n) == [i \in 1..n |-> 0]

\* make_train_test_sets(pos_graphs, neg_graphs, test_proportion): what it can
\* return or raise. The shuffles after random.seed(random_state) are taken to
\* leave any order.
make_train_test_sets(pos, neg, tp) ==
    UNION {UNION {
        LET tr_pos_graphs == TrainPart(sp, tp)
            te_pos_graphs == TestPart(sp, tp)
            tr_neg_graphs == TrainPart(sn, tp)
            te_neg_graphs == TestPart(sn, tp)
            tr_graphs  == tr_pos_graphs \o tr_neg_graphs
            te_graphs  == te_pos_graphs \o te_neg_graphs
            tr_targets == Ones(Len(tr_pos_graphs)) \o Zeros(Len(tr_neg_graphs))
            te_targets == Ones(Len(te_pos_graphs)) \o Zeros(Len(te_neg_graphs))
        IN  {[raised |-> tr.raised \/ te.raised, train |-> tr, test |-> te] :
                tr \in paired_shuffle(tr_graphs, tr_targets),
                te \in paired_shuffle(te_graphs, te_targets)} :
        sn \in Shuffle(neg)} :
        sp \in Shuffle(pos)}

InitSplit ==
    /\ pc = "call"
    /\ \E np, nn \in 0..MaxClass :
           /\ pos_graphs = [i \in 1..np |-> i]
           /\ neg_graphs = [i \in 1..nn |-> MaxClass + 1 + i]
    /\ test_proportion \in TestProportions
    /\ train = NoPair
    /\ test = NoPair
    /\ SamplerIdle
    /\ EstIdle
    /\ SearchIdle

MakeTrainTestSetsCall ==
    /\ pc = "call"
    /\ \E r \in make_train_test_sets(pos_graphs, neg_graphs, test_proportion) :
           /\ pc' = IF r.raised THEN "raised" ELSE "returned"
           /\ train' = IF r.raised THEN NoPair ELSE [g |-> r.train.g, t |-> r.train.t]
           /\ test' = IF r.raised THEN NoPair ELSE [g |-> r.test.g, t |-> r.test.t]
    /\ UNCHANGED <<pos_graphs, neg_graphs, test_proportion>>
    /\ UNCHANGED <<samplerVars, estVars, searchVars>>

NextSplit == MakeTrainTestSetsCall

SpecSplit == InitSplit /\ [][NextSplit]_vars

\* a class is split as the claim says: every graph once, in train or in test,
\* the last int(n * test_proportion) of them in test, each with label y
SplitAsClaimed(class_graphs, y) ==
    LET n == Len(class_graphs)
        k == IntTrunc(n * test_proportion[1], test_proportion[2])
    IN  /\ \A g \in Range(class_graphs) :
               Count(train.g, g) + Count(test.g, g) = 1
        /\ Cardinality(Range(class_graphs) \cap Range(test.g)) = k
        /\ Cardinality(Range(class_graphs) \cap Range(train.g)) = n - k
        /\ \A i \in DOMAIN train.g :
               train.g[i] \in Range(class_graphs) => train.t[i] = y
        /\ \A i \in DOMAIN test.g :
               test.g[i] \in Range(class_graphs) => test.t[i] = y

\* C10: make_train_test_sets splits each class into a test part of exactly
\* int(n * test_proportion) items and a train part of the other items, disjoint
\* and together the whole class, with targets 1 for positives and 0 for
\* negatives, also when int(n * test_proportion) = 0.
C10_SplitSizes ==
    pc = "returned" =>
        /\ Len(train.g) = Len(train.t)
        /\ Len(test.g) = Len(test.t)
        /\ SplitAsClaimed(pos_graphs, 1)
        /\ SplitAsClaimed(neg_graphs, 0)

\* Where both classes have int(n * test_proportion) > 0, the split is as C10 says.
SplitSizesWhenTestNonEmpty ==
    (/\ pc # "call"
     /\ TestSize(Len(pos_graphs), test_proportion) > 0
     /\ TestSize(Len(neg_graphs), test_proportion) > 0) =>
        \/ /\ pc = "returned"
           /\ SplitAsClaimed(pos_graphs, 1)
           /\ SplitAsClaimed(neg_graphs, 0)
        \/ /\ pc = "raised"
           /\ TestSize(Len(pos_graphs), test_proportion) = Len(pos_graphs)
           /\ TestSize(Len(neg_graphs), test_proportion) = Len(neg_graphs)

\* A class with int(n * test_proportion) = 0 goes to the test set whole.
SplitZeroTestSize ==
    (pc = "returned" /\ TestSize(Len(pos_graphs), test_proportion) = 0) =>
        /\ Range(pos_graphs) \subseteq Range(test.g)
        /\ Range(pos_graphs) \cap Range(train.g) = {}

----------------------------------------------------------------------------
\* Properties of the samplers.

\* the (graph, label) pairs of two parallel lists
Pairs(g, t) == Zip(g, t)

\* the same pairs, each as often, in both lists of pairs
SamePairs(a, b) ==
    \A x \in Range(a) \cup Range(b) : Count(a, x) = Count(b, x)

\* C4: paired_shuffle on two equal-length sequences returns two sequences of
\* that length whose position-wise pairs are the input's pairs, each as often
\* as in the input.
C4_PairedShufflePreservesPairs ==
    pc # "call" =>
        /\ pc = "returned"
        /\ Len(out_graphs) = Len(graphs)
        /\ Len(out_targets) = Len(targets)
        /\ SamePairs(Pairs(out_graphs, out_targets), Pairs(graphs, targets))

\* On a non-empty input paired_shuffle does return, and keeps the pairs.
PairedShuffleNonEmpty ==
    (pc # "call" /\ graphs # <<>>) =>
        /\ pc = "returned"
        /\ Len(out_graphs) = Len(graphs)
        /\ Len(out_targets) = Len(targets)
        /\ SamePairs(Pairs(out_graphs, out_targets), Pairs(graphs, targets))

\* the count the claim gives class y in the output of subsample
SubsampleExpected(y) ==
    LET num_classes == Cardinality(Range(targets))
    IN  IF num_classes = 0 THEN 0
        ELSE Min(Count(targets, y), subsample_size \div num_classes)

\* C3: subsample returns, for every label y, min(count of y in the input,
\* subsample_size div num_classes) items labelled y; so at most subsample_size
\* items, with labels of the input only.
C3_SubsampleCounts ==
    pc # "call" =>
        /\ pc = "returned"
        /\ \A y \in Labels : Count(out_targets, y) = SubsampleExpected(y)
        /\ Len(out_targets) <= subsample_size
        /\ Range(out_targets) \subseteq Range(targets)

\* When subsample returns, the counts are those of C3.
SubsampleCountsWhenReturned ==
    pc = "returned" =>
        /\ \A y \in Labels : Count(out_targets, y) = SubsampleExpected(y)
        /\ Len(out_targets) <= subsample_size
        /\ Range(out_targets) \subseteq Range(targets)
        /\ \A i \in DOMAIN out_graphs : targets[out_graphs[i]] = out_targets[i]

\* subsample raises exactly when it selects nothing.
SubsampleRaisesWhenEmpty ==
    pc # "call" => (pc = "raised" <=> \A y \in Labels : SubsampleExpected(y) = 0)

MaxCount == CHOOSE n \in 0..Len(targets) :
                /\ \A y \in Range(targets) : Count(targets, y) <= n
                /\ (targets # <<>> => \E y \in Range(targets) : Count(targets, y) = n)

MinCount == CHOOSE n \in 0..Len(targets) :
                /\ \A y \in Range(targets) : Count(targets, y) >= n
                /\ (targets # <<>> => \E y \in Range(targets) : Count(targets, y) = n)

\* the graphs of the input labelled y
GraphsOf(y) == {graphs[i] : i \in {j \in DOMAIN graphs : targets[j] = y}}

\* the output is all of class mn, once each, and k graphs of class mj, once each
OutputIs(mn, mj, k) ==
    /\ mn # mj
    /\ \A g \in GraphsOf(mn) : Count(out_graphs, g) = 1
    /\ \A g \in GraphsOf(mj) : Count(out_graphs, g) <= 1
    /\ Cardinality(GraphsOf(mj) \cap Range(out_graphs)) = k
    /\ Len(out_graphs) = Cardinality(GraphsOf(mn)) + k
    /\ Len(out_targets) = Len(out_graphs)
    /\ \A i \in DOMAIN out_graphs : targets[out_graphs[i]] = out_targets[i]

\* a majority and a minority class: the largest class is larger than the smallest
HasMajorityAndMinority == targets # <<>> /\ MaxCount > MinCount

\* C1 as stated: the output holds every minority item and exactly
\* int(minority_count * ratio) majority items.
C1_BalanceExactRatio ==
    (pc # "call" /\ HasMajorityAndMinority) =>
        /\ pc = "returned"
        /\ \E mn, mj \in Range(targets) :
               /\ Count(targets, mn) = MinCount
               /\ Count(targets, mj) = MaxCount
               /\ OutputIs(mn, mj, IntTrunc(MinCount * ratio[1], ratio[2]))

\* C1 as amended: the output holds every minority item and exactly
\* min(majority_count, int(minority_count * ratio)) majority items.
C1_BalanceCappedRatio ==
    (pc # "call" /\ HasMajorityAndMinority) =>
        /\ pc = "returned"
        /\ \E mn, mj \in Range(targets) :
               /\ Count(targets, mn) = MinCount
               /\ Count(targets, mj) = MaxCount
               /\ OutputIs(mn, mj, Min(MaxCount, IntTrunc(MinCount * ratio[1], ratio[2])))

\* balance has returned where the majority class is smaller than
\* int(minority_count * ratio)
C1_Witness ==
    /\ pc = "returned"
    /\ HasMajorityAndMinority
    /\ IntTrunc(MinCount * ratio[1], ratio[2]) > MaxCount
    /\ Len(out_graphs) = MinCount + MaxCount

\* C2: with a margin estimator, every majority item kept has an absolute
\* decision_function value no larger than that of every majority item left
\* out (the majority class is the one class with items kept and left out).
C2_KeptMarginsSmallest ==
    (pc = "returned" /\ estimator) =>
        \A g \in Range(out_graphs) : \A h \in Range(graphs) \ Range(out_graphs) :
            targets[g] = targets[h] => Abs(margin[g]) <= Abs(margin[h])

\* balance has kept a majority graph of margin 1 and left out one of margin -2
C2_Witness ==
    /\ pc = "returned"
    /\ estimator
    /\ \E g \in Range(out_graphs) : \E h \in Range(graphs) \ Range(out_graphs) :
           /\ targets[g] = targets[h]
           /\ margin[g] = 1
           /\ margin[h] = -2

\* C9: on an input of at least two labels, no (graph, label) pair is more often
\* in the output of balance than in the input, and the output holds two labels.
C9_BalanceSubMultiset ==
    (pc # "call" /\ Cardinality(Range(targets)) >= 2) =>
        /\ pc = "returned"
        /\ \A x \in Range(Pairs(out_graphs, out_targets)) :
               Count(Pairs(out_graphs, out_targets), x) <= Count(Pairs(graphs, targets), x)
        /\ Cardinality(Range(out_targets)) = 2

----------------------------------------------------------------------------
\* EdenEstimator: set_params, fit, predict, decision_function (lines 122-186).
\* transform (vectorize) and the training of the SGDClassifier are library
\* calls, taken to succeed; a classifier that was never trained raises
\* NotFittedError from predict and decision_function.

\* self.model.fit(x, y): the classifier afterwards
ClassifierFit(model) == [model EXCEPT !.fitted = TRUE]

\* self.model.predict(x) or self.model.decision_function(x)
ClassifierAnswer(model) == IF model.fitted THEN "predictions" ELSE "NotFittedError"

\* no call of fit is running
FitIdle == fit_pc \in {"idle", "returned", "raised"}

\* where fit goes first: lines 154-155, 158, 169
FirstStep(b, rnd) ==
    IF b THEN (IF rnd THEN "balance" ELSE "subsample") ELSE "fit_raw"

\* the datasets fit is called on: distinct graphs, labels of at least two classes
FitTargets ==
    {ts \in UNION {SeqsOfLen(Labels, n) : n \in Lengths} : Cardinality(Range(ts)) >= 2}

\* the margins decision_function can give for the graphs in use
MarginsFor(n) ==
    {mg \in [GraphIds -> MarginVals] : \A g \in GraphIds : g > n => mg[g] = 1}

\* the estimator has been constructed with some arguments
InitEstimator ==
    /\ pc = "call"
    /\ SamplerIdle
    /\ SplitIdle
    /\ SearchIdle
    /\ \E b \in BOOLEAN, size \in EstSubsampleSizes :
           est = EdenEstimator(1, 1, b, size, <<2, 1>>)
    /\ fit_pc = "idle"
    /\ randomize = TRUE
    /\ samp = NoPair
    /\ bal = NoPair
    /\ log = <<>>
    /\ current_fit = FALSE
    /\ last = "construct"
    /\ answer = "none"

EstUnchanged ==
    UNCHANGED <<pc, estimator, margin, ratio, subsample_size, out_graphs, out_targets,
                splitVars, searchVars>>

\* est.set_params(...)
SetParams ==
    /\ FitIdle
    /\ \E b \in BOOLEAN, size \in EstSubsampleSizes :
           est' = set_params(est, 2, 2, b, size, <<2, 1>>)
    /\ current_fit' = FALSE
    /\ fit_pc' = "idle"
    /\ log' = <<>>
    /\ last' = "set_params"
    /\ answer' = "none"
    /\ UNCHANGED <<graphs, targets, randomize, samp, bal>>
    /\ EstUnchanged

\* est.fit(graphs, targets, randomize) is called: line 154
FitCall ==
    /\ FitIdle
    /\ \E ts \in FitTargets, rnd \in BOOLEAN :
           /\ graphs' = Distinct(Len(ts))
           /\ targets' = ts
           /\ randomize' = rnd
           /\ fit_pc' = FirstStep(est.balance, rnd)
    /\ log' = <<>>
    /\ last' = "fit"
    /\ answer' = "none"
    /\ UNCHANGED <<est, samp, bal, current_fit>>
    /\ EstUnchanged

\* fit raises: its locals are gone
FitRaise ==
    /\ fit_pc' = "raised"
    /\ graphs' = <<>>
    /\ targets' = <<>>
    /\ samp' = NoPair
    /\ bal' = NoPair

\* lines 159-160: samp_graphs, samp_targets = subsample(...)
FitSubsample ==
    /\ fit_pc = "subsample"
    /\ \E r \in subsample(graphs, targets, est.subsample_size) :
           IF r.raised
           THEN FitRaise
           ELSE /\ samp' = [g |-> r.g, t |-> r.t]
                /\ fit_pc' = "fit_sample"
                /\ UNCHANGED <<graphs, targets, bal>>
    /\ log' = Append(log, "subsample")
    /\ UNCHANGED <<est, randomize, current_fit, last, answer>>
    /\ EstUnchanged

\* lines 161-162: the classifier is trained on the subsample, which is not
\* read again
FitSample ==
    /\ fit_pc = "fit_sample"
    /\ est' = [est EXCEPT !.model = ClassifierFit(est.model)]
    /\ current_fit' = TRUE
    /\ samp' = NoPair
    /\ fit_pc' = "balance"
    /\ log' = Append(log, "train")
    /\ UNCHANGED <<graphs, targets, randomize, bal, last, answer>>
    /\ EstUnchanged

\* lines 156-157 and 163-164: bal_graphs, bal_targets = balance(...), with no
\* estimator when randomize, with self otherwise; balance then calls
\* self.decision_function on the majority graphs
FitBalance ==
    /\ fit_pc = "balance"
    /\ IF ~randomize /\ ClassifierAnswer(est.model) = "NotFittedError"
       THEN FitRaise
       ELSE \E mg \in MarginsFor(Len(graphs)) :
            \E r \in balance(graphs, targets, ~randomize, mg, est.ratio) :
               IF r.raised
               THEN FitRaise
               ELSE /\ bal' = [g |-> r.g, t |-> r.t]
                    /\ fit_pc' = "fit_balanced"
                    /\ UNCHANGED <<graphs, targets, samp>>
    /\ log' = IF randomize THEN Append(log, "balance")
              ELSE log \o <<"balance", "decision_function">>
    /\ UNCHANGED <<est, randomize, current_fit, last, answer>>
    /\ EstUnchanged

\* fit returns self: its locals are gone
FitReturn ==
    /\ fit_pc' = "returned"
    /\ graphs' = <<>>
    /\ targets' = <<>>
    /\ samp' = NoPair
    /\ bal' = NoPair

\* lines 165-168, 172: the classifier is trained on the balanced data
FitBalanced ==
    /\ fit_pc = "fit_balanced"
    /\ est' = [est EXCEPT !.model = ClassifierFit(est.model)]
    /\ current_fit' = TRUE
    /\ FitReturn
    /\ log' = Append(log, "train")
    /\ UNCHANGED <<randomize, last, answer>>
    /\ EstUnchanged

\* lines 170-172: the classifier is trained on the raw dataset
FitRaw ==
    /\ fit_pc = "fit_raw"
    /\ est' = [est EXCEPT !.model = ClassifierFit(est.model)]
    /\ current_fit' = TRUE
    /\ FitReturn
    /\ log' = Append(log, "train")
    /\ UNCHANGED <<randomize, last, answer>>
    /\ EstUnchanged

\* est.predict(graphs)
Predict ==
    /\ FitIdle
    /\ answer' = ClassifierAnswer(est.model)
    /\ last' = "predict"
    /\ UNCHANGED <<est, fit_pc, randomize, samp, bal, log, current_fit, graphs, targets>>
    /\ EstUnchanged

\* est.decision_function(graphs)
DecisionFunction ==
    /\ FitIdle
    /\ answer' = ClassifierAnswer(est.model)
    /\ last' = "decision_function"
    /\ UNCHANGED <<est, fit_pc, randomize, samp, bal, log, current_fit, graphs, targets>>
    /\ EstUnchanged

NextEstimator ==
    \/ SetParams
    \/ FitCall
    \/ FitSubsample
    \/ FitSample
    \/ FitBalance
    \/ FitBalanced
    \/ FitRaw
    \/ Predict
    \/ DecisionFunction

SpecEstimator == InitEstimator /\ [][NextEstimator]_vars

EstTypeOK ==
    /\ fit_pc \in {"idle", "subsample", "fit_sample", "balance", "fit_balanced",
                   "fit_raw", "returned", "raised"}
    /\ est.model.fitted \in BOOLEAN
    /\ answer \in {"none", "predictions", "NotFittedError"}

ExpectedLog ==
    IF est.balance
    THEN IF randomize
         THEN <<"balance", "train">>
         ELSE <<"subsample", "train", "balance", "decision_function", "train">>
    ELSE <<"train">>

\* the decision_function call of balance comes after a training of the classifier
DecisionFunctionAfterTrain ==
    /\ \A i \in DOMAIN log :
           log[i] = "decision_function" => \E j \in 1..(i - 1) : log[j] = "train"
    /\ (fit_pc = "balance" /\ ~randomize) => est.model.fitted

\* C8: fit makes its calls in the order of its path (subsample, train, balance
\* with the estimator itself, train; or balance with no estimator, train; or
\* train alone), the decision_function call of balance comes after a training,
\* and in every path fit ends in the Fit state.
C8_FitOrdering ==
    /\ fit_pc = "returned" => log = ExpectedLog
    /\ DecisionFunctionAfterTrain
    /\ fit_pc # "raised"
    /\ fit_pc = "returned" => est.model.fitted

\* When fit returns, it made the calls of C8 in order and the estimator is Fit.
FitOrderingWhenReturned ==
    /\ fit_pc = "returned" => log = ExpectedLog
    /\ DecisionFunctionAfterTrain
    /\ fit_pc = "returned" => est.model.fitted

\* fit raises only in its subsample step, where subsample selects nothing.
FitRaisesInSubsample ==
    fit_pc = "raised" => (log = <<"subsample">> /\ est.balance /\ ~randomize)

----------------------------------------------------------------------------
\* model_selection_rand, _sample_params, _eval_params, _eval (lines 204-221,
\* 261-280). cross_val_score is a library call, taken to succeed with any of
\* the scores.

ParamDistrWide == [r |-> 1..5, d |-> 0..6]

\* param_distr = {"r": list(range(1, 5)), "d": list(range(0, 6))}
ParamDistr == [r |-> 1..4, d |-> 0..5]

\* _sample_params(param_distr): one random.choice per key
SampleParams(param_distr) == [r : param_distr.r, d : param_distr.d]

\* _eval_params: the (np.mean(scores), params) a trial can return
EvalParams(param_distr) ==
    {[score |-> sc, params |-> params] :
        sc \in Scores, params \in SampleParams(param_distr)}

\* a < b for two params dicts with the same keys (Python 2): the values of the
\* smallest key on which they differ decide, and "d" < "r"
DictLess(a, b) == a.d < b.d \/ (a.d = b.d /\ a.r < b.r)

\* a < b for two (score, params) tuples
TupleLess(a, b) ==
    a.score < b.score \/ (a.score = b.score /\ DictLess(a.params, b.params))

FirstOf(scores) == scores[1]

\* max(scores)
MaxOf(scores) ==
    scores[CHOOSE i \in DOMAIN scores :
               /\ \A j \in DOMAIN scores : ~TupleLess(scores[i], scores[j])
               /\ \A j \in 1..(i - 1) : TupleLess(scores[j], scores[i])]

Queued == [st |-> "queued", score |-> 0, params |-> [r |-> 0, d |-> 0]]

\* the toy dataset of the search: two graphs, one per class
ToyTargets == <<1, 0>>

\* values of subsample_size of model_selection_rand: 0 stands for None
SearchSubsampleSizes == {0, 1, 2}

\* model_selection_rand is called on an estimator, fit or not
InitSearch ==
    /\ pc = "call"
    /\ graphs = Distinct(Len(ToyTargets))
    /\ targets = ToyTargets
    /\ subsample_size \in SearchSubsampleSizes
    /\ estimator = FALSE
    /\ margin = NoMargin
    /\ ratio = <<1, 1>>
    /\ out_graphs = <<>>
    /\ out_targets = <<>>
    /\ SplitIdle
    /\ \E f \in BOOLEAN : est = [DefaultEstimator EXCEPT !.model.fitted = f]
    /\ fit_pc = "idle"
    /\ randomize = TRUE
    /\ samp = NoPair
    /\ bal = NoPair
    /\ log = <<>>
    /\ current_fit = est.model.fitted
    /\ last = "construct"
    /\ answer = "none"
    /\ n_iter \in 0..MaxIter
    /\ trial = <<>>
    /\ best = NoEstimator

SearchUnchanged ==
    UNCHANGED <<graphs, targets, subsample_size, estimator, margin, ratio,
                out_graphs, out_targets, splitVars, estVars, n_iter>>

\* lines 208-214: the optional subsample (its result is handed to the trials
\* only), then the n_iter tasks are handed to the pool
SubmitTrials ==
    /\ pc = "call"
    /\ IF subsample_size # 0
       THEN \E r \in subsample(graphs, targets, subsample_size) :
                IF r.raised
                THEN /\ pc' = "raised"
                     /\ trial' = trial
                ELSE /\ pc' = "map"
                     /\ trial' = [i \in 1..n_iter |-> Queued]
       ELSE /\ pc' = "map"
            /\ trial' = [i \in 1..n_iter |-> Queued]
    /\ best' = best
    /\ SearchUnchanged

\* number of trials a worker is running
Running == Cardinality({i \in DOMAIN trial : trial[i].st = "running"})

\* a free worker of the pool takes trial i
TrialStart(i) ==
    /\ pc = "map"
    /\ trial[i].st = "queued"
    /\ Running < PoolSize
    /\ trial' = [trial EXCEPT ![i].st = "running"]
    /\ UNCHANGED <<pc, best>>
    /\ SearchUnchanged

\* _eval in the worker: trial i samples its parameters, cross-validates and
\* returns (mean score, params)
TrialEval(i) ==
    /\ pc = "map"
    /\ trial[i].st = "running"
    /\ \E res \in EvalParams(ParamDistr) :
           trial' = [trial EXCEPT ![i] = [st |-> "done", score |-> res.score,
                                         params |-> res.params]]
    /\ UNCHANGED <<pc, best>>
    /\ SearchUnchanged

\* pool.map has every result
AllTrialsDone(t) == \A i \in DOMAIN t : t[i].st = "done"

\* the list pool.map returns: the results in the order of the tasks
MapResults(t) == [i \in DOMAIN t |-> [score |-> t[i].score, params |-> t[i].params]]

\* lines 214-221: pool.map returns, the best trial is taken and a new
\* estimator is built from its parameters; max of no scores is a ValueError
SelectBest ==
    /\ pc = "map"
    /\ AllTrialsDone(trial)
    /\ LET scores == MapResults(trial)
       IN  IF scores = <<>>
           THEN /\ pc' = "raised"
                /\ best' = best
           ELSE /\ pc' = "returned"
                /\ best' = EdenEstimatorOf(MaxOf(scores).params)
    /\ trial' = trial
    /\ SearchUnchanged

NextSearch ==
    \/ SubmitTrials
    \/ \E i \in DOMAIN trial : TrialStart(i)
    \/ \E i \in DOMAIN trial : TrialEval(i)
    \/ SelectBest

SpecSearch == InitSearch /\ [][NextSearch]_vars

\* C5: the best trial is selected only after all n_iter trials have returned,
\* and the returned estimator has the hyperparameters of a trial whose mean
\* score is the maximum over all trials, whatever the interleaving.
C5_BestOfAllTrials ==
    pc = "returned" =>
        /\ n_iter >= 1
        /\ Len(trial) = n_iter
        /\ \A i \in 1..n_iter : trial[i].st = "done"
        /\ \E i \in 1..n_iter :
               /\ best.r = trial[i].params.r
               /\ best.d = trial[i].params.d
               /\ \A j \in 1..n_iter : trial[j].score <= trial[i].score

\* an estimator has been returned where the first trial is not the best one
C5_Witness ==
    /\ pc = "returned"
    /\ n_iter >= 2
    /\ trial[1].score < trial[2].score
    /\ trial[1].params # trial[2].params
    /\ best.r = trial[2].params.r
    /\ best.d = trial[2].params.d

\* C6: the estimator model_selection_rand returns is newly constructed and
\* unfit, with r in {1,2,3,4} and d in {0,1,2,3,4,5}.
C6_ReturnedInGrid ==
    pc = "returned" =>
        /\ best.r \in {1, 2, 3, 4}
        /\ best.d \in {0, 1, 2, 3, 4, 5}
        /\ ~best.model.fitted
        /\ best.balance = FALSE
        /\ best.subsample_size = 200
        /\ best.ratio = <<2, 1>>

\* a fit estimator has returned a new one at the upper corner of the grid
C6_Witness ==
    /\ pc = "returned"
    /\ est.model.fitted
    /\ best.r = 4
    /\ best.d = 5
    /\ ~best.model.fitted

====
